---- MODULE Spec2Model ----
(***************************************************************************)
(* Model of static/app.js (Expedientes DPCJM): the page behaviours that    *)
(* the script attaches to the document.  Each behaviour works on its own   *)
(* part of the page, so each has its own variables, its own actions and    *)
(* its own specification; an action of one behaviour leaves the variables  *)
(* of the others unchanged.                                                *)
(*                                                                         *)
(* Text (textContent, input.value, data-* attributes) is a sequence of     *)
(* one-character strings, so that parsing and formatting are computed.     *)
(***************************************************************************)
EXTENDS Integers, Sequences, FiniteSets, TLC

VARIABLES
  \* ---- Avisos (+ / -), app.js 159-199
  badge,        \* badge.textContent of the .aviso-badge of the control
  badgeCls,     \* badge.classList
  disabled,     \* btn.disabled of every .btn-avisos button of the control
  reqs,         \* handler invocations suspended at an await, oldest first
  avisoLast,    \* what the last step of the handler did (alert, log, ...)
  \* ---- Radios: permitir deseleccionar, app.js 23-40
  checked,      \* r.checked of every radio of the page
  wasChecked,   \* r.dataset.waschecked
  radioLoaded,  \* the DOMContentLoaded handler of lines 36-40 has run
  radioLast,    \* the last click: its target and what preceded it
  \* ---- Tema claro / oscuro, app.js 45-69
  stored,       \* localStorage.getItem("theme")
  rootTheme,    \* document.documentElement.dataset.theme
  osPref,       \* what matchMedia("(prefers-color-scheme: dark)") answers
  themeBtn,     \* document.getElementById("themeToggle") finds the button
  themePc,      \* "start" before the script runs, then "ready" or "skipped"
  themeLast,    \* the last step of the theme code and the value it read
  \* ---- INDEX: Live Search, app.js 12-18 and 89-117
  qValue,       \* input.value of #q
  rowDisplay,   \* tr.style.display of every .rowExp row captured at load
  countLabel,   \* countLabel.textContent, NoLabel without a #countLabel
  timers,       \* the timers setTimeout has armed and that have not run
  debT,         \* t of the debounce closure: a timer id, 0 for null
  nextTimerId,  \* the id the next setTimeout returns
  filterLoaded, \* the DOMContentLoaded handler of lines 89-117 has run
  sinceInput,   \* milliseconds since the last input event, Wait at most
  passes,       \* debounced filter passes since the last input event
  filterLast,   \* the last step of the filter and the value a pass read
  snapRows,     \* rows of the filter: the .rowExp rows of #expBody at load
  \* ---- INDEX: Orden en el FRONT, app.js 122-154
  bodyRows,     \* the .rowExp rows inside #expBody, in document order
  strayRows,    \* the .rowExp rows of the document outside #expBody
  rowKey,       \* dataset.yy, dataset.mm, dataset.num of every row
  sortParam,    \* params.get("sort"), NoParam without the parameter
  sortLoaded,   \* the DOMContentLoaded handler of lines 122-154 has run
  sortLast,     \* the rows that handler collected, in the order it found them
  \* ---- INDEX: Select all (Bulk), app.js 74-83
  selectAll,    \* selectAll.checked of #selectAll
  cbChecked,    \* cb.checked of every input[name="expediente_ids"]
  bulkLoaded,   \* the DOMContentLoaded handler of lines 74-83 has run
  bulkLast,     \* the last event on the checkboxes
  \* ---- Action menu (spec 4.7)
  menuOpen,     \* the "open" state of every menu container
  menuLast,     \* the last click: its target and the menus before it
  \* ---- the server behind POST /expedientes/{id}/verificaciones/{action}
  srvCount,     \* the aviso count the server holds for the record
  srvApplied    \* buttons whose request in flight the server has applied

avisoVars == <<badge, badgeCls, disabled, reqs, avisoLast>>
radioVars == <<checked, wasChecked, radioLoaded, radioLast>>
themeVars == <<stored, rootTheme, osPref, themeBtn, themePc, themeLast>>
filterVars == <<qValue, rowDisplay, countLabel, timers, debT, nextTimerId,
                filterLoaded, sinceInput, passes, filterLast, snapRows>>
sortVars == <<bodyRows, strayRows, rowKey, sortParam, sortLoaded, sortLast>>
bulkVars == <<selectAll, cbChecked, bulkLoaded, bulkLast>>
menuVars == <<menuOpen, menuLast>>
serverVars == <<srvCount, srvApplied>>
vars == <<avisoVars, radioVars, themeVars, filterVars, sortVars, bulkVars,
          menuVars, serverVars>>

\* what a step of one behaviour leaves alone
notClient == <<radioVars, themeVars, filterVars, sortVars, bulkVars, menuVars>>
notAviso == <<notClient, serverVars>>
notRadio == <<avisoVars, themeVars, filterVars, sortVars, bulkVars,
              menuVars, serverVars>>
notTheme == <<avisoVars, radioVars, filterVars, sortVars, bulkVars,
              menuVars, serverVars>>
notFilter == <<avisoVars, radioVars, themeVars, sortVars, bulkVars,
               menuVars, serverVars>>
notSort == <<avisoVars, radioVars, themeVars, bulkVars, menuVars, serverVars>>
notBulk == <<avisoVars, radioVars, themeVars, filterVars, sortVars,
             menuVars, serverVars>>
notMenu == <<avisoVars, radioVars, themeVars, filterVars, sortVars, bulkVars,
             serverVars>>
notServer == <<avisoVars, notClient>>

----------------------------------------------------------------------------
(* Bounds                                                                  *)

\* inc clicks are accepted while the displayed count is below MaxCount
MaxCount == 10
\* handler invocations that may be suspended at the same time
MaxInFlight == 3
\* input events on #q in one run
MaxInputs == 3
\* checkboxes named expediente_ids on the page
MaxMembers == 4
\* action menus on the page
MaxMenus == 7

----------------------------------------------------------------------------
(* Text helpers: what the JavaScript built-ins compute                     *)

Max(a, b) == IF a >= b THEN a ELSE b

DigitChars == <<"0", "1", "2", "3", "4", "5", "6", "7", "8", "9">>
IsDigit(c) == \E i \in 1..10 : DigitChars[i] = c
DigitVal(c) == (CHOOSE i \in 1..10 : DigitChars[i] = c) - 1
IsSpace(c) == c \in {" ", "\n", "\t"}

RECURSIVE SkipSpace(_)
SkipSpace(s) ==
  IF s # <<>> /\ IsSpace(Head(s)) THEN SkipSpace(Tail(s)) ELSE s

RECURSIVE DigitRun(_, _)
DigitRun(s, acc) ==
  IF s = <<>> \/ ~IsDigit(Head(s)) THEN acc
  ELSE DigitRun(Tail(s), acc * 10 + DigitVal(Head(s)))

\* parseInt(s, 10): leading white space, an optional sign, then the longest
\* run of decimal digits; NaN when there is no digit.
NaN == [nan |-> TRUE, n |-> 0]
ParseInt(s) ==
  LET t == SkipSpace(s)
      signed == t # <<>> /\ Head(t) \in {"-", "+"}
      u == IF signed THEN Tail(t) ELSE t
  IN  IF u = <<>> \/ ~IsDigit(Head(u)) THEN NaN
      ELSE [nan |-> FALSE,
            n |-> IF Head(t) = "-" THEN 0 - DigitRun(u, 0) ELSE DigitRun(u, 0)]

\* parseInt(s, 10) || 0
ParseIntOr0(s) == IF ParseInt(s).nan THEN 0 ELSE ParseInt(s).n

\* String(v) of an integer
RECURSIVE ToStr(_)
ToStr(v) ==
  IF v < 0 THEN <<"-">> \o ToStr(0 - v)
  ELSE IF v < 10 THEN <<DigitChars[v + 1]>>
  ELSE ToStr(v \div 10) \o <<DigitChars[(v % 10) + 1]>>

UpperChars == <<"A", "B", "C", "D", "E", "F", "G", "H", "I", "J", "K", "L", "M",
                "N", "O", "P", "Q", "R", "S", "T", "U", "V", "W", "X", "Y", "Z">>
LowerChars == <<"a", "b", "c", "d", "e", "f", "g", "h", "i", "j", "k", "l", "m",
                "n", "o", "p", "q", "r", "s", "t", "u", "v", "w", "x", "y", "z">>

\* s.toLowerCase()
LowerOf(c) ==
  IF \E i \in 1..26 : UpperChars[i] = c
    THEN LowerChars[CHOOSE i \in 1..26 : UpperChars[i] = c]
    ELSE c
ToLower(s) == [i \in 1..Len(s) |-> LowerOf(s[i])]

\* s.trim()
RECURSIVE DropEndSpace(_)
DropEndSpace(s) ==
  IF s # <<>> /\ IsSpace(s[Len(s)]) THEN DropEndSpace(SubSeq(s, 1, Len(s) - 1))
  ELSE s
Trim(s) == DropEndSpace(SkipSpace(s))

\* hay.includes(q)
Includes(hay, q) ==
  \E i \in 0..(Len(hay) - Len(q)) : SubSeq(hay, i + 1, i + Len(q)) = q

----------------------------------------------------------------------------
(* Avisos (+ / -)                                                          *)

AvisoButtons == {"btnInc", "btnDec"}
\* btn.dataset.action
ActionOf == [btnInc |-> "inc", btnDec |-> "dec"]

ColourClasses == {"badge--ok", "badge--warn", "badge--bad"}

\* the badge as the server may have rendered it
InitBadges ==
  { <<"0">>, <<"1">>, <<"9">>, <<" ", "3", "\n">>, <<>>, <<"x">>, <<"-", "2">> }
InitBadgeCls ==
  { {"aviso-badge"} \cup S :
      S \in { {}, {"badge--ok"}, {"badge--warn", "badge--bad"} } }

\* bodies a successful response may carry
ResponseBodies == {<<"0">>, <<"7">>}

NoReq == [btn |-> "", clickBadge |-> <<>>, clickCls |-> {}, touched |-> FALSE]

AvisoInit ==
  /\ badge \in InitBadges
  /\ badgeCls \in InitBadgeCls
  /\ disabled = [b \in AvisoButtons |-> FALSE]
  /\ reqs = <<>>
  /\ avisoLast = [kind |-> "none", req |-> NoReq, body |-> <<>>,
                  alerts |-> 0, logs |-> 0]

RemoveAt(s, i) == SubSeq(s, 1, i - 1) \o SubSeq(s, i + 1, Len(s))

\* let v = parseInt(badge.textContent, 10) || 0;
\* v = action === "inc" ? v + 1 : Math.max(0, v - 1);
NewCount_NoFloor(action, text) ==
  IF action = "inc" THEN ParseIntOr0(text) + 1 ELSE ParseIntOr0(text) - 1
NewCount(action, text) ==
  IF action = "inc" THEN ParseIntOr0(text) + 1
  ELSE Max(0, ParseIntOr0(text) - 1)

\* classList.remove(ok, warn, bad), then add the one of the count
Recolour_NoRemove(cls, v) ==
  cls \cup { IF v <= 1 THEN "badge--ok"
             ELSE IF v = 2 THEN "badge--warn" ELSE "badge--bad" }
Recolour(cls, v) ==
  (cls \ ColourClasses)
    \cup { IF v <= 1 THEN "badge--ok"
           ELSE IF v = 2 THEN "badge--warn" ELSE "badge--bad" }

\* btn.disabled = true, when the click reaches the handler
DisableOnClick_Skip(b) == disabled
DisableOnClick(b) == [disabled EXCEPT ![b] = TRUE]

\* A click on a .btn-avisos button.  The browser dispatches no click on a
\* disabled button; the handler disables the button and suspends at fetch.
AvisoClick(b) ==
  /\ ~disabled[b]
  /\ ActionOf[b] # ""
  /\ Len(reqs) < MaxInFlight
  /\ ActionOf[b] = "inc" => ParseIntOr0(badge) < MaxCount
  /\ disabled' = DisableOnClick(b)
  /\ reqs' = Append(reqs, [btn |-> b, stage |-> "fetch", clickBadge |-> badge,
                           clickCls |-> badgeCls, touched |-> FALSE])
  /\ avisoLast' = [kind |-> "click",
                   req |-> [btn |-> b, clickBadge |-> badge,
                            clickCls |-> badgeCls, touched |-> FALSE],
                   body |-> <<>>, alerts |-> 0, logs |-> 0]
  /\ UNCHANGED <<badge, badgeCls>>
  /\ UNCHANGED notAviso

\* the invocation a step belongs to: its button, the badge as it was at the
\* click, and whether another invocation has written the badge since
ReqOf(i) == [btn |-> reqs[i].btn, clickBadge |-> reqs[i].clickBadge,
             clickCls |-> reqs[i].clickCls, touched |-> reqs[i].touched]

\* badge.textContent as read at line 185, after the await
DisplayedAt_Click(i) == reqs[i].clickBadge
DisplayedAt(i) == badge

\* finally { btn.disabled = false; }
Finally_Skip(b) == disabled
Finally(b) == [disabled EXCEPT ![b] = FALSE]

\* fetch resolves with res.ok: lines 185-192, then finally.  The body of
\* the response is not read.
OnOk(i) ==
  /\ i \in 1..Len(reqs)
  /\ reqs[i].stage = "fetch"
  /\ LET v == NewCount(ActionOf[reqs[i].btn], DisplayedAt(i))
     IN  /\ badge' = ToStr(v)
         /\ badgeCls' = Recolour(badgeCls, v)
  /\ disabled' = Finally(reqs[i].btn)
  /\ reqs' = RemoveAt([j \in 1..Len(reqs) |-> [reqs[j] EXCEPT !.touched = TRUE]], i)
  /\ \E body \in ResponseBodies :
       avisoLast' = [kind |-> "ok", req |-> ReqOf(i), body |-> body,
                     alerts |-> 0, logs |-> 0]
FetchOk(i) == OnOk(i) /\ UNCHANGED notAviso

\* fetch resolves with !res.ok: the handler suspends at res.text()
FetchNotOk(i) ==
  /\ i \in 1..Len(reqs)
  /\ reqs[i].stage = "fetch"
  /\ reqs' = [reqs EXCEPT ![i].stage = "text"]
  /\ avisoLast' = [kind |-> "status", req |-> ReqOf(i), body |-> <<>>,
                   alerts |-> 0, logs |-> 0]
  /\ UNCHANGED <<badge, badgeCls, disabled>>
  /\ UNCHANGED notAviso

\* catch (err) { console.error(err); alert(...) } finally { ... }
Catch_Update(i) ==
  /\ badge' = ToStr(NewCount(ActionOf[reqs[i].btn], badge))
  /\ badgeCls' = Recolour(badgeCls, NewCount(ActionOf[reqs[i].btn], badge))
  /\ disabled' = Finally(reqs[i].btn)
  /\ reqs' = RemoveAt(reqs, i)
  /\ avisoLast' = [kind |-> "fail", req |-> ReqOf(i), body |-> <<>>,
                   alerts |-> 1, logs |-> 1]
Catch(i) ==
  /\ UNCHANGED <<badge, badgeCls>>
  /\ disabled' = Finally(reqs[i].btn)
  /\ reqs' = RemoveAt(reqs, i)
  /\ avisoLast' = [kind |-> "fail", req |-> ReqOf(i), body |-> <<>>,
                   alerts |-> 1, logs |-> 1]

\* fetch rejects (network error)
FetchReject(i) ==
  /\ i \in 1..Len(reqs)
  /\ reqs[i].stage = "fetch"
  /\ Catch(i)
  /\ UNCHANGED notAviso

\* res.text() settles: resolved, the handler throws Error("HTTP ..."); rejected,
\* the rejection is the error.  Both land in catch.
TextSettle(i) ==
  /\ i \in 1..Len(reqs)
  /\ reqs[i].stage = "text"
  /\ Catch(i)
  /\ UNCHANGED notAviso

AvisoNext ==
  \/ \E b \in AvisoButtons : AvisoClick(b)
  \/ \E i \in 1..MaxInFlight : FetchOk(i)
  \/ \E i \in 1..MaxInFlight : FetchNotOk(i)
  \/ \E i \in 1..MaxInFlight : FetchReject(i)
  \/ \E i \in 1..MaxInFlight : TextSettle(i)

\* the network answers every request and the event loop runs the
\* continuation of every settled promise
Settle(b) ==
  \E i \in 1..MaxInFlight :
    /\ i <= Len(reqs)
    /\ reqs[i].btn = b
    /\ (FetchOk(i) \/ FetchReject(i) \/ TextSettle(i) \/ FetchNotOk(i))

\* a page without the avisos control
AvisoIdle ==
  /\ badge = <<>>
  /\ badgeCls = {}
  /\ disabled = [b \in AvisoButtons |-> FALSE]
  /\ reqs = <<>>
  /\ avisoLast = [kind |-> "none", req |-> NoReq, body |-> <<>>,
                  alerts |-> 0, logs |-> 0]

----------------------------------------------------------------------------
(* Avisos with the server of the two endpoints (spec 6): every request    *)
(* succeeds, the server applies the requests in the order they reach it,  *)
(* which need not be the order of the clicks, and the responses are       *)
(* handled in the order they arrive.  A button is disabled while its      *)
(* request is in flight, so a button names the request it has in flight.  *)

\* the server count equals the displayed count before any click
ServerInit ==
  /\ AvisoInit
  /\ ParseIntOr0(badge) >= 0
  /\ srvCount = ParseIntOr0(badge)
  /\ srvApplied = {}

\* POST .../inc adds 1; POST .../dec subtracts 1, floored at 0
ServerCount(action, n) == IF action = "inc" THEN n + 1 ELSE Max(0, n - 1)

\* the request of button b reaches the server, which applies it
ServerApply(b) ==
  /\ \E i \in 1..Len(reqs) : reqs[i].btn = b /\ reqs[i].stage = "fetch"
  /\ b \notin srvApplied
  /\ srvCount' = ServerCount(ActionOf[b], srvCount)
  /\ srvApplied' = srvApplied \cup {b}
  /\ UNCHANGED notServer

\* the response to an applied request arrives with res.ok
ServedOk(i) ==
  /\ i \in 1..Len(reqs)
  /\ reqs[i].btn \in srvApplied
  /\ OnOk(i)
  /\ srvApplied' = srvApplied \ {reqs[i].btn}
  /\ UNCHANGED srvCount
  /\ UNCHANGED notClient

ServerNext ==
  \/ \E b \in AvisoButtons : AvisoClick(b)
  \/ \E b \in AvisoButtons : ServerApply(b)
  \/ \E i \in 1..MaxInFlight : ServedOk(i)

\* no request has reached a server
ServerIdle ==
  /\ srvCount = 0
  /\ srvApplied = {}

----------------------------------------------------------------------------
(* Radios: permitir deseleccionar                                          *)

\* three radio-toggle radios in two groups, and a plain radio
Radios == {"a1", "a2", "b1", "p1"}
\* r.name
NameOf == [a1 |-> "a", a2 |-> "a", b1 |-> "b", p1 |-> "p"]
\* r.classList.contains("radio-toggle")
IsToggle == [a1 |-> TRUE, a2 |-> TRUE, b1 |-> TRUE, p1 |-> FALSE]

Undefined == "<undefined>"
Null == "<null>"

NoClick == [el |-> "", before |-> FALSE, run |-> 0, before2 |-> FALSE]

\* the browser keeps at most one radio of a group checked
RadioInit ==
  /\ checked \in [Radios -> BOOLEAN]
  /\ \A x, y \in Radios : checked[x] /\ checked[y] /\ NameOf[x] = NameOf[y] => x = y
  /\ wasChecked = [r \in Radios |-> Undefined]
  /\ radioLoaded = FALSE
  /\ radioLast = NoClick

\* DOMContentLoaded: r.dataset.waschecked = r.checked ? "1" : "0"
RadioLoad ==
  /\ ~radioLoaded
  /\ radioLoaded' = TRUE
  /\ wasChecked' = [r \in Radios |->
                      IF IsToggle[r] THEN (IF checked[r] THEN "1" ELSE "0")
                      ELSE wasChecked[r]]
  /\ UNCHANGED <<checked, radioLast>>
  /\ UNCHANGED notRadio

\* what the browser does to the group before the click event is dispatched
NativeClick(el) ==
  [r \in Radios |-> IF r = el THEN TRUE
                    ELSE IF NameOf[r] = NameOf[el] THEN FALSE ELSE checked[r]]

\* if (el.dataset.waschecked === "1") el.checked = false;
Deselect_Never(el, chk) == chk
Deselect(el, chk) ==
  IF wasChecked[el] = "1" THEN [chk EXCEPT ![el] = FALSE] ELSE chk

\* group.forEach(r => r.dataset.waschecked = "0");
\* el.dataset.waschecked = el.checked ? "1" : "0";
Reflag_KeepGroup(el, chk) ==
  [wasChecked EXCEPT ![el] = IF chk[el] THEN "1" ELSE "0"]
Reflag(el, chk) ==
  [r \in Radios |->
     IF r = el THEN (IF chk[el] THEN "1" ELSE "0")
     ELSE IF NameOf[r] = NameOf[el] /\ IsToggle[r] THEN "0" ELSE wasChecked[r]]

\* A click on a radio, once the page has loaded.  run counts the clicks on
\* el in succession; before and before2 are el.checked before this click
\* and before the click that preceded it.
RadioClick(el) ==
  /\ radioLoaded
  /\ LET chk == IF IsToggle[el] THEN Deselect(el, NativeClick(el))
                ELSE NativeClick(el)
     IN  /\ checked' = chk
         /\ wasChecked' = IF IsToggle[el] THEN Reflag(el, chk) ELSE wasChecked
  /\ radioLast' = [el |-> el, before |-> checked[el],
                   run |-> IF radioLast.el = el THEN 2 ELSE 1,
                   before2 |-> radioLast.before]
  /\ UNCHANGED radioLoaded
  /\ UNCHANGED notRadio

RadioNext ==
  \/ RadioLoad
  \/ \E el \in Radios : RadioClick(el)

\* a page without radios to toggle
RadioIdle ==
  /\ checked = [r \in Radios |-> FALSE]
  /\ wasChecked = [r \in Radios |-> Undefined]
  /\ radioLoaded = FALSE
  /\ radioLast = NoClick

----------------------------------------------------------------------------
(* Tema claro / oscuro                                                     *)

Themes == {"dark", "light"}
\* what localStorage may hold under "theme" when the script runs
StoredValues == {Null, "dark", "light", "auto", "Dark", ""}
\* "none": window.matchMedia is missing
OsPrefs == {"dark", "light", "none"}

ThemeInit ==
  /\ stored \in StoredValues
  /\ rootTheme \in {Undefined, "dark", "light"}
  /\ osPref \in OsPrefs
  /\ themeBtn \in BOOLEAN
  /\ themePc = "start"
  /\ themeLast = [kind |-> "none", saved |-> Null]

\* the theme the code of lines 55-63 resolves
Resolve_DefaultDark(saved) ==
  IF saved = "dark" \/ saved = "light" THEN saved
  ELSE IF osPref = "light" THEN "light" ELSE "dark"
Resolve(saved) ==
  IF saved = "dark" \/ saved = "light" THEN saved
  ELSE IF osPref = "dark" THEN "dark" ELSE "light"

\* applyTheme(t): root.dataset.theme = t; localStorage.setItem("theme", t)
applyTheme_NoPersist(t) ==
  /\ rootTheme' = t
  /\ stored' = stored
applyTheme(t) ==
  /\ rootTheme' = t
  /\ stored' = t

\* the script runs: without the button it returns at line 48, else it
\* applies the resolved theme and registers the click listener
ThemeLoad ==
  /\ themePc = "start"
  /\ IF ~themeBtn
       THEN /\ themePc' = "skipped"
            /\ themeLast' = [kind |-> "skip", saved |-> stored]
            /\ UNCHANGED <<stored, rootTheme>>
       ELSE /\ applyTheme(Resolve(stored))
            /\ themePc' = "ready"
            /\ themeLast' = [kind |-> "load", saved |-> stored]
  /\ UNCHANGED <<osPref, themeBtn>>
  /\ UNCHANGED notTheme

\* a click on #themeToggle
ThemeToggle ==
  /\ themePc = "ready"
  /\ LET current == IF rootTheme = "dark" THEN "dark" ELSE "light"
     IN  applyTheme(IF current = "dark" THEN "light" ELSE "dark")
  /\ themeLast' = [kind |-> "toggle", saved |-> themeLast.saved]
  /\ UNCHANGED <<osPref, themeBtn, themePc>>
  /\ UNCHANGED notTheme

ThemeNext ==
  \/ ThemeLoad
  \/ ThemeToggle

\* a page whose theme code is not looked at
ThemeIdle ==
  /\ stored = Null
  /\ rootTheme = Undefined
  /\ osPref = "none"
  /\ themeBtn = FALSE
  /\ themePc = "start"
  /\ themeLast = [kind |-> "none", saved |-> Null]

----------------------------------------------------------------------------
(* INDEX: Live Search                                                      *)

\* debounce(applyFilter, 120)
Wait == 120
\* the step of the clock
TickMs == Wait \div 3

\* the .rowExp rows of #expBody and their data-search (a row without the
\* attribute reads "")
FilterRows == {1, 2, 3}
\* a .rowExp row that the page may have outside #expBody
StrayRows == {4}
AllRows == FilterRows \cup StrayRows
RowSearch == << <<"a", "b">>, <<"b", "c">>, <<>>, <<"a", "b", "c">> >>

Range(s) == {s[i] : i \in 1..Len(s)}

\* the text of a label that is not on the page, a parameter not in the URL
NoLabel == <<"<undefined>">>
NoParam == <<"<null>">>

\* what the user types, and what the server may echo into #q
InputValues == { <<>>, <<"a">>, <<" ", "A", "B", " ">>, <<"b">>, <<"z">> }

FilterInit ==
  /\ qValue \in InputValues
  /\ rowDisplay = [r \in AllRows |-> ""]
  /\ countLabel \in {NoLabel, <<"3">>}
  /\ timers = {}
  /\ debT = 0
  /\ nextTimerId = 1
  /\ filterLoaded = FALSE
  /\ sinceInput = Wait
  /\ passes = 0
  /\ filterLast = [kind |-> "none", read |-> <<>>]
  /\ snapRows = {}

\* applyFilter(): lines 97-109
Shown(r, q) == q = <<>> \/ Includes(RowSearch[r], q)
\* const q = (input.value || "").trim().toLowerCase();
Query_NoLower(v) == Trim(v)
Query(v) == ToLower(Trim(v))

\* the pass over rows, the array captured at line 95
ApplyFilterOn(rows) ==
  LET q == Query(qValue)
  IN  /\ rowDisplay' = [r \in AllRows |->
                          IF r \in rows THEN (IF Shown(r, q) THEN "" ELSE "none")
                          ELSE rowDisplay[r]]
      /\ countLabel' = IF countLabel = NoLabel THEN NoLabel
                       ELSE ToStr(Cardinality({r \in rows : Shown(r, q)}))
applyFilter == ApplyFilterOn(snapRows)

\* DOMContentLoaded: the rows are captured, the input listener is
\* registered, and the filter is applied once
FilterLoad ==
  /\ ~filterLoaded
  /\ filterLoaded' = TRUE
  /\ snapRows' = Range(bodyRows)
  /\ ApplyFilterOn(Range(bodyRows))
  /\ filterLast' = [kind |-> "load", read |-> qValue]
  /\ UNCHANGED <<qValue, timers, debT, nextTimerId, sinceInput, passes>>
  /\ UNCHANGED notFilter

\* clearTimeout(t): a timer that has run, or null, clears nothing
ClearTimeout_Noop(ts, id) == ts
ClearTimeout(ts, id) == {tm \in ts : tm.id # id}

\* an input event on #q with the new value v: the debounced function
\* clears the timer it holds and arms a new one
FilterInput(v) ==
  /\ filterLoaded
  /\ nextTimerId <= MaxInputs
  /\ v # qValue
  /\ qValue' = v
  /\ timers' = ClearTimeout(timers, debT) \cup {[id |-> nextTimerId, rem |-> Wait]}
  /\ debT' = nextTimerId
  /\ nextTimerId' = nextTimerId + 1
  /\ sinceInput' = 0
  /\ passes' = 0
  /\ filterLast' = [kind |-> "input", read |-> filterLast.read]
  /\ UNCHANGED <<rowDisplay, countLabel, filterLoaded, snapRows>>
  /\ UNCHANGED notFilter

\* TickMs milliseconds pass
Tick ==
  /\ sinceInput < Wait \/ \E tm \in timers : tm.rem > 0
  /\ timers' = {[id |-> tm.id, rem |-> Max(0, tm.rem - TickMs)] : tm \in timers}
  /\ sinceInput' = IF sinceInput + TickMs >= Wait THEN Wait ELSE sinceInput + TickMs
  /\ UNCHANGED <<qValue, rowDisplay, countLabel, debT, nextTimerId,
                 filterLoaded, passes, filterLast, snapRows>>
  /\ UNCHANGED notFilter

\* a timer whose delay has passed runs fn(...args): applyFilter reads
\* input.value then, its arguments are ignored
TimerFire(id) ==
  /\ \E tm \in timers : tm.id = id /\ tm.rem = 0
  /\ timers' = {tm \in timers : tm.id # id}
  /\ applyFilter
  /\ passes' = passes + 1
  /\ filterLast' = [kind |-> "pass", read |-> qValue]
  /\ UNCHANGED <<qValue, debT, nextTimerId, filterLoaded, sinceInput, snapRows>>
  /\ UNCHANGED notFilter

FilterNext ==
  \/ FilterLoad
  \/ \E v \in InputValues : FilterInput(v)
  \/ Tick
  \/ \E id \in 1..MaxInputs : TimerFire(id)

\* a page without the search box
FilterIdle ==
  /\ qValue = <<>>
  /\ snapRows = {}
  /\ rowDisplay = [r \in AllRows |-> ""]
  /\ countLabel = NoLabel
  /\ timers = {}
  /\ debT = 0
  /\ nextTimerId = 1
  /\ filterLoaded = FALSE
  /\ sinceInput = Wait
  /\ passes = 0
  /\ filterLast = [kind |-> "none", read |-> <<>>]

----------------------------------------------------------------------------
(* INDEX: Orden en el FRONT                                                *)

\* (yy, mm, num) as the server may render them; "" is a missing attribute
KeyChoices ==
  { [yy |-> <<"2", "4">>, mm |-> <<"3">>, num |-> <<"5">>],
    [yy |-> <<"2", "4">>, mm |-> <<"1">>, num |-> <<"1", "0">>],
    [yy |-> <<"2", "3">>, mm |-> <<"1", "2">>, num |-> <<"1">>],
    [yy |-> <<"x">>, mm |-> <<>>, num |-> <<"7">>] }
\* the sort parameter of the URL
SortParams ==
  { NoParam, <<"a", "s", "c">>, <<"d", "e", "s", "c">>,
    <<" ", "A", "S", "C">>, <<"u", "p">> }

SortInit ==
  /\ bodyRows = <<1, 2, 3>>
  /\ strayRows \in SUBSET StrayRows
  /\ rowKey \in [AllRows -> KeyChoices]
  /\ sortParam \in SortParams
  /\ sortLoaded = FALSE
  /\ sortLast = <<>>

\* const sort = (params.get("sort") || "desc").trim().toLowerCase();
SortOf(param) ==
  IF param = NoParam \/ param = <<>> THEN <<"d", "e", "s", "c">>
  ELSE ToLower(Trim(param))

\* toInt(s): parseInt(s, 10), 0 when that is not finite
toInt(s) == IF ParseInt(s).nan THEN 0 ELSE ParseInt(s).n

\* the comparator of lines 137-151, for the rows a and b
Compare_NoMonth(a, b, sort) ==
  LET asc == sort = <<"a", "s", "c">>
      ayy == toInt(rowKey[a].yy)
      byy == toInt(rowKey[b].yy)
      anum == toInt(rowKey[a].num)
      bnum == toInt(rowKey[b].num)
  IN  IF ayy # byy THEN (IF asc THEN ayy - byy ELSE byy - ayy)
      ELSE IF anum # bnum THEN (IF asc THEN anum - bnum ELSE bnum - anum)
      ELSE 0
Compare(a, b, sort) ==
  LET asc == sort = <<"a", "s", "c">>
      ayy == toInt(rowKey[a].yy)
      byy == toInt(rowKey[b].yy)
      amm == toInt(rowKey[a].mm)
      bmm == toInt(rowKey[b].mm)
      anum == toInt(rowKey[a].num)
      bnum == toInt(rowKey[b].num)
  IN  IF ayy # byy THEN (IF asc THEN ayy - byy ELSE byy - ayy)
      ELSE IF amm # bmm THEN (IF asc THEN amm - bmm ELSE bmm - amm)
      ELSE IF anum # bnum THEN (IF asc THEN anum - bnum ELSE bnum - anum)
      ELSE 0

\* x put into the sorted t behind every row that does not come after it
InsertRow(x, t, sort) ==
  LET before == {i \in 1..Len(t) : Compare(t[i], x, sort) <= 0}
      p == IF before = {} THEN 0 ELSE CHOOSE i \in before : \A j \in before : j <= i
  IN  SubSeq(t, 1, p) \o <<x>> \o SubSeq(t, p + 1, Len(t))

\* rows.sort(comparator): Array.prototype.sort is stable
RECURSIVE SortRows_Unstable(_, _)
SortRows_Unstable(s, sort) ==
  IF s = <<>> THEN <<>>
  ELSE InsertRow(Head(s), SortRows_Unstable(Tail(s), sort), sort)
RECURSIVE SortRows(_, _)
SortRows(s, sort) ==
  IF s = <<>> THEN <<>>
  ELSE InsertRow(s[Len(s)], SortRows(SubSeq(s, 1, Len(s) - 1), sort), sort)

\* document.querySelectorAll(".rowExp"): the rows of the document in
\* document order; the stray rows come after the table
DocumentRows ==
  bodyRows \o (IF 4 \in strayRows THEN <<4>> ELSE <<>>)

\* DOMContentLoaded, after the handler of the Live Search (registered
\* before it) and before any input event: the rows are sorted and appended
\* to #expBody in that order
SortLoad_ShowAll ==
  /\ ~sortLoaded
  /\ filterLoaded /\ nextTimerId = 1
  /\ DocumentRows # <<>>
  /\ sortLoaded' = TRUE
  /\ sortLast' = DocumentRows
  /\ bodyRows' = SortRows(DocumentRows, SortOf(sortParam))
  /\ strayRows' = {}
  /\ rowDisplay' = [r \in AllRows |-> ""]
  /\ UNCHANGED <<rowKey, sortParam>>
  /\ UNCHANGED <<qValue, countLabel, timers, debT, nextTimerId,
                 filterLoaded, sinceInput, passes, filterLast, snapRows>>
  /\ UNCHANGED notSort
SortLoad ==
  /\ ~sortLoaded
  /\ filterLoaded /\ nextTimerId = 1
  /\ DocumentRows # <<>>
  /\ sortLoaded' = TRUE
  /\ sortLast' = DocumentRows
  /\ bodyRows' = SortRows(DocumentRows, SortOf(sortParam))
  /\ strayRows' = {}
  /\ UNCHANGED <<rowKey, sortParam>>
  /\ UNCHANGED filterVars
  /\ UNCHANGED notSort

\* the rows as rendered, the handler not looked at
SortIdle ==
  /\ bodyRows = <<1, 2, 3>>
  /\ strayRows = {}
  /\ rowKey = [r \in AllRows |-> [yy |-> <<>>, mm |-> <<>>, num |-> <<>>]]
  /\ sortParam = NoParam
  /\ sortLoaded = FALSE
  /\ sortLast = <<>>

\* the load of the index page: both handlers, no typing
SortNext ==
  \/ FilterLoad
  \/ SortLoad

\* an input event on the index page: both load handlers have run
IndexInput(v) ==
  /\ sortLoaded
  /\ FilterInput(v)

\* the index page: both handlers, then typing in #q
IndexNext ==
  \/ FilterLoad
  \/ SortLoad
  \/ \E v \in InputValues : IndexInput(v)
  \/ Tick
  \/ \E id \in 1..MaxInputs : TimerFire(id)

\* the index page with one set of keys
IndexInit ==
  /\ bodyRows = <<1, 2, 3>>
  /\ strayRows \in SUBSET StrayRows
  /\ rowKey = [r \in AllRows |->
                 [yy |-> <<"2", "4">>, mm |-> ToStr(r % 2), num |-> ToStr(r)]]
  /\ sortParam \in {NoParam, <<"a", "s", "c">>}
  /\ sortLoaded = FALSE
  /\ sortLast = <<>>

----------------------------------------------------------------------------
(* INDEX: Select all (Bulk)                                                *)

\* document.querySelectorAll('input[name="expediente_ids"]')
Members == 1..MaxMembers

BulkInit ==
  /\ selectAll \in BOOLEAN
  /\ cbChecked \in [Members -> BOOLEAN]
  /\ bulkLoaded = FALSE
  /\ bulkLast = [kind |-> "none", cb |-> 0]

\* DOMContentLoaded: the change listener is registered on #selectAll
BulkLoad ==
  /\ ~bulkLoaded
  /\ bulkLoaded' = TRUE
  /\ UNCHANGED <<selectAll, cbChecked, bulkLast>>
  /\ UNCHANGED notBulk

\* .forEach((cb) => (cb.checked = selectAll.checked))
Propagate_OnlyCheck(v) == [cb \in Members |-> cbChecked[cb] \/ v]
Propagate(v) == [cb \in Members |-> v]

\* the user flips #selectAll: the browser changes its checked state and
\* dispatches change
SelectAllChange ==
  /\ bulkLoaded
  /\ selectAll' = ~selectAll
  /\ cbChecked' = Propagate(~selectAll)
  /\ bulkLast' = [kind |-> "change", cb |-> 0]
  /\ UNCHANGED bulkLoaded
  /\ UNCHANGED notBulk

\* the user flips one checkbox of the group: no listener of the script
MemberClick(cb) ==
  /\ bulkLoaded
  /\ cbChecked' = [cbChecked EXCEPT ![cb] = ~cbChecked[cb]]
  /\ bulkLast' = [kind |-> "member", cb |-> cb]
  /\ UNCHANGED <<selectAll, bulkLoaded>>
  /\ UNCHANGED notBulk

BulkNext ==
  \/ BulkLoad
  \/ SelectAllChange
  \/ \E cb \in Members : MemberClick(cb)

\* a page without the select-all checkbox
BulkIdle ==
  /\ selectAll = FALSE
  /\ cbChecked = [cb \in Members |-> FALSE]
  /\ bulkLoaded = FALSE
  /\ bulkLast = [kind |-> "none", cb |-> 0]

----------------------------------------------------------------------------
(* Action menu (spec 4.7): a trigger inside every menu container toggles  *)
(* the "open" state of that container; a click handler on the document    *)
(* closes every open menu that does not contain the target of the click.  *)

Menus == 1..MaxMenus
\* a click target outside every menu
Outside == 0
NoMenuClick == [kind |-> "none", menu |-> Outside,
                before |-> [m \in Menus |-> FALSE]]

\* the page is rendered with every menu closed
MenuInit ==
  /\ menuOpen = [m \in Menus |-> FALSE]
  /\ menuLast = NoMenuClick

\* the outside-click sweep: every open menu that does not contain the
\* target of the click loses its open state
Sweep_None(open, target) == open
Sweep(open, target) == [m \in Menus |-> open[m] /\ m = target]

\* the trigger of menu m: its own open state flips
Toggle(open, m) == [open EXCEPT ![m] = ~open[m]]

\* a click on the trigger of menu m: the toggle and the sweep run in the
\* same handling pass; the sweep leaves m alone, since m contains the trigger
TriggerClick(m) ==
  /\ menuOpen' = Sweep(Toggle(menuOpen, m), m)
  /\ menuLast' = [kind |-> "trigger", menu |-> m, before |-> menuOpen]
  /\ UNCHANGED notMenu

\* a click inside menu m that is not on its trigger (an entry of the menu)
InsideClick(m) ==
  /\ menuOpen' = Sweep(menuOpen, m)
  /\ menuLast' = [kind |-> "inside", menu |-> m, before |-> menuOpen]
  /\ UNCHANGED notMenu

\* a click outside every menu
OutsideClick ==
  /\ menuOpen' = Sweep(menuOpen, Outside)
  /\ menuLast' = [kind |-> "outside", menu |-> Outside, before |-> menuOpen]
  /\ UNCHANGED notMenu

MenuNext ==
  \/ \E m \in Menus : TriggerClick(m)
  \/ \E m \in Menus : InsideClick(m)
  \/ OutsideClick

\* a page without menus
MenuIdle == MenuInit

----------------------------------------------------------------------------
(* Specifications: one per behaviour                                       *)

NoIndex == FilterIdle /\ SortIdle /\ BulkIdle /\ MenuIdle /\ ServerIdle
InitAvisos == AvisoInit /\ RadioIdle /\ ThemeIdle /\ NoIndex
InitRadio == RadioInit /\ AvisoIdle /\ ThemeIdle /\ NoIndex
InitTheme == ThemeInit /\ AvisoIdle /\ RadioIdle /\ NoIndex
NoPage == AvisoIdle /\ RadioIdle /\ ThemeIdle /\ MenuIdle /\ ServerIdle
InitFilter == FilterInit /\ NoPage /\ SortIdle /\ BulkIdle
InitBulk == BulkInit /\ NoPage /\ FilterIdle /\ SortIdle
InitSort == FilterInit /\ SortInit /\ NoPage /\ BulkIdle
InitIndex == FilterInit /\ IndexInit /\ NoPage /\ BulkIdle
InitAvisoServer ==
  ServerInit /\ RadioIdle /\ ThemeIdle /\ MenuIdle
    /\ FilterIdle /\ SortIdle /\ BulkIdle
InitMenu ==
  MenuInit /\ AvisoIdle /\ RadioIdle /\ ThemeIdle /\ ServerIdle
    /\ FilterIdle /\ SortIdle /\ BulkIdle

SpecAvisos == InitAvisos /\ [][AvisoNext]_vars
FairSpecAvisos ==
  SpecAvisos /\ \A b \in AvisoButtons : WF_vars(Settle(b))
SpecRadio == InitRadio /\ [][RadioNext]_vars
SpecTheme == InitTheme /\ [][ThemeNext]_vars
SpecFilter == InitFilter /\ [][FilterNext]_vars
SpecBulk == InitBulk /\ [][BulkNext]_vars
SpecSort == InitSort /\ [][SortNext]_vars
SpecIndex == InitIndex /\ [][IndexNext]_vars
SpecMenu == InitMenu /\ [][MenuNext]_vars
SpecAvisoServer == InitAvisoServer /\ [][ServerNext]_vars
\* time passes, and the event loop runs a timer whose delay has passed
FairSpecFilter ==
  SpecFilter /\ WF_vars(Tick) /\ WF_vars(\E id \in 1..MaxInputs : TimerFire(id))

----------------------------------------------------------------------------
(* Avisos: properties                                                      *)

InFlightOf(b) == {i \in 1..Len(reqs) : reqs[i].btn = b}

\* C1: from the click that issues the POST until the request settles the
\* button is disabled, and a button never has two requests in flight.
C1_DisabledWhileInFlight ==
  \A b \in AvisoButtons :
    /\ InFlightOf(b) # {} => disabled[b]
    /\ Cardinality(InFlightOf(b)) <= 1
C1_Witness ==
  /\ Len(reqs) = 2
  /\ reqs[1].stage = "text"
  /\ disabled["btnInc"] /\ disabled["btnDec"]

\* C2 as stated: after a failed request the badge text and its classes are
\* what they were before the click, one alert is raised, the error is logged.
C2_AsBeforeTheClick ==
  avisoLast.kind = "fail" =>
    /\ badge = avisoLast.req.clickBadge
    /\ badgeCls = avisoLast.req.clickCls
    /\ avisoLast.alerts = 1
    /\ avisoLast.logs = 1

\* C2 amended: handling a failure writes neither the badge text nor its
\* classes, raises one alert and logs the error; the badge is as before the
\* click unless another request of the same badge succeeded in between.
C2_FailureKeepsBadge ==
  /\ [][avisoLast'.kind = "fail" =>
          /\ badge' = badge
          /\ badgeCls' = badgeCls
          /\ avisoLast'.alerts = 1
          /\ avisoLast'.logs = 1]_vars
  /\ [](avisoLast.kind = "fail" /\ ~avisoLast.req.touched =>
          /\ badge = avisoLast.req.clickBadge
          /\ badgeCls = avisoLast.req.clickCls)
C2_Witness ==
  /\ avisoLast.kind = "fail"
  /\ avisoLast.req.touched
  /\ badge # avisoLast.req.clickBadge

\* C3: a successful response writes the count computed from the text shown
\* when the response is handled (unparsable text is 0): inc writes v + 1,
\* dec writes v - 1 but never less than 0; the response body plays no part.
C3_CountFromDisplayed ==
  [][avisoLast'.kind = "ok" =>
       LET v == ParseIntOr0(badge)
       IN  badge' = IF ActionOf[avisoLast'.req.btn] = "inc" THEN ToStr(v + 1)
                    ELSE IF v >= 1 THEN ToStr(v - 1) ELSE <<"0">>]_vars
C3_Witness ==
  /\ avisoLast.kind = "ok"
  /\ avisoLast.req.btn = "btnInc"
  /\ avisoLast.req.touched
  /\ avisoLast.req.clickBadge = <<"1">>
  /\ badge = <<"1">>
  /\ avisoLast.body = <<"7">>

\* C4: after a successful update the badge has exactly one colour class,
\* the one of the displayed count: <= 1 ok, 2 warn, > 2 bad.
C4_OneColourClass ==
  avisoLast.kind = "ok" =>
    LET v == ParseIntOr0(badge)
    IN  /\ v <= 1 => badgeCls \cap ColourClasses = {"badge--ok"}
        /\ v = 2 => badgeCls \cap ColourClasses = {"badge--warn"}
        /\ v > 2 => badgeCls \cap ColourClasses = {"badge--bad"}
C4_Witness ==
  /\ avisoLast.kind = "ok"
  /\ badge = <<"2">>
  /\ badgeCls = {"aviso-badge", "badge--warn"}
  /\ avisoLast.req.clickCls = {"aviso-badge", "badge--warn", "badge--bad"}

\* C5: a disabled button is eventually enabled again, whatever the outcome
\* of its request.
C5_EventuallyEnabled ==
  \A b \in AvisoButtons : disabled[b] ~> ~disabled[b]
C5_Witness ==
  /\ avisoLast.kind = "fail"
  /\ ~disabled[avisoLast.req.btn]
  /\ reqs = <<>>

\* the text shows a non-negative integer: digits only, white space around
ShowsCount(s) ==
  LET t == SkipSpace(s)
  IN  /\ t # <<>>
      /\ IsDigit(Head(t))
      /\ \A i \in 1..Len(t) :
           IsDigit(t[i]) \/ (\A j \in i..Len(t) : IsSpace(t[j]))

\* C6: a badge that shows a non-negative integer shows a non-negative
\* integer after every step, whatever the clicks and the responses.
C6_CountNonNegative ==
  [][ShowsCount(badge) => ShowsCount(badge')]_vars
C6_Witness ==
  /\ avisoLast.kind = "ok"
  /\ avisoLast.req.btn = "btnDec"
  /\ avisoLast.req.clickBadge = <<"0">>
  /\ badge = <<"0">>

----------------------------------------------------------------------------
(* Radios: properties                                                      *)

GroupOf(el) == {r \in Radios : NameOf[r] = NameOf[el]}

\* C8: a click on a toggle-radio that was the selected one of its group
\* leaves the group without a selected radio; a click on one that was not
\* selected selects it as a native radio does, and its flag becomes "1".
C8_ToggleOnClick ==
  radioLast.el # "" /\ IsToggle[radioLast.el] =>
    /\ radioLast.before => \A r \in GroupOf(radioLast.el) : ~checked[r]
    /\ ~radioLast.before =>
         /\ checked[radioLast.el]
         /\ wasChecked[radioLast.el] = "1"
         /\ \A r \in GroupOf(radioLast.el) \ {radioLast.el} : ~checked[r]
C8_Witness ==
  /\ radioLast.el = "a1"
  /\ radioLast.before
  /\ radioLast.run = 1
  /\ ~checked["a1"] /\ ~checked["a2"]

\* C9 as stated: two clicks in succession on a toggle-radio leave it
\* unchecked.
C9_TwiceUnchecked ==
  radioLast.run = 2 /\ IsToggle[radioLast.el] => ~checked[radioLast.el]

\* C9 amended: two clicks in succession on a toggle-radio leave it as it
\* was before the two clicks: unchecked when it was unchecked, checked
\* again when it was the selected one.
C9_TwiceRestores ==
  radioLast.run = 2 /\ IsToggle[radioLast.el] =>
    checked[radioLast.el] = radioLast.before2
C9_Witness ==
  /\ radioLast.run = 2
  /\ radioLast.el = "a2"
  /\ ~radioLast.before2
  /\ radioLast.before
  /\ ~checked["a2"]

----------------------------------------------------------------------------
(* Tema: properties                                                        *)

\* C10: the theme applied when the script runs is the stored value when
\* that is "dark" or "light", else "dark" when the OS prefers dark, else
\* "light".
C10_ThemeAtLoad ==
  themeLast.kind = "load" =>
    /\ themeLast.saved \in Themes => rootTheme = themeLast.saved
    /\ themeLast.saved \notin Themes /\ osPref = "dark" => rootTheme = "dark"
    /\ themeLast.saved \notin Themes /\ osPref # "dark" => rootTheme = "light"
C10_Witness ==
  /\ themeLast.kind = "load"
  /\ themeLast.saved = Null
  /\ osPref = "dark"
  /\ rootTheme = "dark"

----------------------------------------------------------------------------
(* Live Search: properties                                                 *)

\* C7: an input event replaces the pending invocation by one Wait ms later:
\* at most one invocation is pending; a debounced pass runs only when Wait
\* ms have passed since the last input event, at most once per burst, and
\* reads the value of the last input event; a pending pass eventually runs.
C7_Debounce ==
  /\ [](Cardinality(timers) <= 1)
  /\ [](filterLast.kind = "input" /\ sinceInput = 0 =>
          timers = {[id |-> debT, rem |-> Wait]})
  /\ [](passes <= 1)
  /\ [](filterLast.kind = "pass" =>
          /\ sinceInput >= Wait
          /\ passes = 1
          /\ filterLast.read = qValue
          /\ \A r \in FilterRows :
               rowDisplay[r] = "" <=> Shown(r, ToLower(Trim(qValue))))
  /\ (timers # {}) ~> (passes = 1 /\ timers = {})
C7_Witness ==
  /\ filterLast.kind = "pass"
  /\ nextTimerId = 4
  /\ qValue = <<" ", "A", "B", " ">>
  /\ rowDisplay = <<"", "none", "none", "">>

\* C11 as stated: the page load leaves the stored theme as it found it;
\* only a click on the toggle changes it.
C11_LoadKeepsStored ==
  themeLast.kind = "load" => stored = themeLast.saved

\* C11 amended: the stored theme is written by a click on the toggle and by
\* the page load, which stores the theme it resolves: the load changes the
\* stored value exactly when that was neither "dark" nor "light"; nothing
\* else writes it.
C11_StoredWrittenByLoadAndToggle ==
  /\ [][stored' # stored =>
          \/ themeLast'.kind = "toggle"
          \/ themeLast'.kind = "load" /\ stored \notin Themes]_vars
  /\ [](themeLast.kind \in {"load", "toggle"} => stored = rootTheme)
  /\ [](themeLast.kind = "load" /\ themeLast.saved \in Themes =>
          stored = themeLast.saved)
  /\ [](themeLast.kind = "skip" => stored = themeLast.saved)
C11_Witness ==
  /\ themeLast.kind = "load"
  /\ themeLast.saved = Null
  /\ osPref = "light"
  /\ stored = "light"

\* C20: once the page has loaded, the flag of a toggle-radio is "1" exactly
\* when the radio is checked, and at most one radio of a group has it.
C20_FlagIsChecked ==
  radioLoaded =>
    /\ \A r \in Radios : IsToggle[r] => (wasChecked[r] = "1" <=> checked[r])
    /\ \A r, s \in Radios :
         /\ IsToggle[r] /\ IsToggle[s] /\ NameOf[r] = NameOf[s]
         /\ wasChecked[r] = "1" /\ wasChecked[s] = "1"
         => r = s
C20_Witness ==
  /\ radioLast.el = "a2"
  /\ ~radioLast.before
  /\ checked["a2"] /\ wasChecked["a2"] = "1"
  /\ ~checked["a1"] /\ wasChecked["a1"] = "0"
  /\ checked["b1"] /\ wasChecked["b1"] = "1"

----------------------------------------------------------------------------
(* Select all: properties                                                  *)

\* C12: after a change event on the select-all checkbox every checkbox of
\* the group has the checked state of the select-all checkbox.
C12_AllFollowSelectAll ==
  bulkLast.kind = "change" => \A cb \in Members : cbChecked[cb] = selectAll
C12_Witness ==
  /\ bulkLast.kind = "change"
  /\ ~selectAll
  /\ \A cb \in Members : ~cbChecked[cb]

\* C13: after a filter pass a row of the snapshot is visible exactly when
\* the trimmed, lowercased query is empty or occurs in the row's search
\* attribute, and the count label shows the number of visible rows.
C13_FilterPass ==
  filterLast.kind \in {"load", "pass"} =>
    LET q == ToLower(Trim(qValue))
    IN  /\ snapRows = FilterRows
        /\ \A r \in snapRows :
             rowDisplay[r] = "" <=> (q = <<>> \/ Includes(RowSearch[r], q))
        /\ countLabel # NoLabel =>
             countLabel = ToStr(Cardinality({r \in snapRows : rowDisplay[r] = ""}))
C13_Witness ==
  /\ filterLast.kind = "pass"
  /\ qValue = <<" ", "A", "B", " ">>
  /\ rowDisplay[1] = "" /\ rowDisplay[2] = "none" /\ rowDisplay[3] = "none"
  /\ countLabel = <<"1">>

----------------------------------------------------------------------------
(* Orden en el FRONT: properties                                           *)

\* the integer key (year, month, sequence number) of a row
KeyOf(r) ==
  <<ParseIntOr0(rowKey[r].yy), ParseIntOr0(rowKey[r].mm), ParseIntOr0(rowKey[r].num)>>
LexLeq(k, l) ==
  \/ k[1] < l[1]
  \/ k[1] = l[1] /\ k[2] < l[2]
  \/ k[1] = l[1] /\ k[2] = l[2] /\ k[3] <= l[3]
PosIn(s, r) == CHOOSE i \in 1..Len(s) : s[i] = r

\* C14: after the load the rows of the body are the rows the handler found,
\* each once, in non-decreasing key order when sort is "asc" and in
\* non-increasing key order when it is "desc" or absent.
C14_SortedByKey ==
  sortLoaded =>
    /\ Len(bodyRows) = Len(sortLast)
    /\ Range(bodyRows) = Range(sortLast)
    /\ Cardinality(Range(bodyRows)) = Len(bodyRows)
    /\ sortParam = <<"a", "s", "c">> =>
         \A i, j \in 1..Len(bodyRows) :
           i < j => LexLeq(KeyOf(bodyRows[i]), KeyOf(bodyRows[j]))
    /\ sortParam \in {NoParam, <<"d", "e", "s", "c">>} =>
         \A i, j \in 1..Len(bodyRows) :
           i < j => LexLeq(KeyOf(bodyRows[j]), KeyOf(bodyRows[i]))
C14_Witness ==
  /\ sortLoaded
  /\ sortParam = <<"a", "s", "c">>
  /\ sortLast = <<1, 2, 3, 4>>
  /\ bodyRows = <<4, 3, 2, 1>>
  /\ rowKey[4].yy = <<"x">>
  /\ rowKey[2].mm = <<"1">> /\ rowKey[1].mm = <<"3">>

\* C15: two rows with equal keys are after the sort in the order the
\* handler found them, in both directions.
C15_StableSort ==
  sortLoaded =>
    \A i, j \in 1..Len(sortLast) :
      i < j /\ KeyOf(sortLast[i]) = KeyOf(sortLast[j]) =>
        PosIn(bodyRows, sortLast[i]) < PosIn(bodyRows, sortLast[j])
C15_Witness ==
  /\ sortLoaded
  /\ sortParam = <<"d", "e", "s", "c">>
  /\ KeyOf(1) = KeyOf(3)
  /\ KeyOf(1) = <<23, 12, 1>>
  /\ sortLast = <<1, 2, 3>>
  /\ bodyRows = <<2, 1, 3>>

\* C16: the sort handler moves rows and writes neither the display of a
\* row nor the count label.
C16_SortKeepsVisibility ==
  [][~sortLoaded /\ sortLoaded' =>
       rowDisplay' = rowDisplay /\ countLabel' = countLabel]_vars
C16_Witness ==
  /\ sortLoaded
  /\ bodyRows = <<3, 2, 1>>
  /\ rowDisplay[1] = "" /\ rowDisplay[2] = "none" /\ rowDisplay[3] = "none"
  /\ countLabel = <<"1">>

\* C17: the rows the sorter puts into the body are the rows the filter
\* captured at load, so a later pass shows or hides and counts every row
\* of the body.
C17_SameSnapshot ==
  sortLoaded =>
    /\ Range(bodyRows) = snapRows
    /\ filterLast.kind = "pass" /\ countLabel # NoLabel =>
         countLabel =
           ToStr(Cardinality({r \in Range(bodyRows) : rowDisplay[r] = ""}))

----------------------------------------------------------------------------
(* Action menu: properties                                                 *)

MenusOpen == {m \in Menus : menuOpen[m]}

\* C18: a click on the trigger of a menu toggles that menu and closes every
\* other menu; a click outside every menu closes whichever is open; so
\* opening A while B is open leaves A open and B closed, a second click on
\* the trigger of A closes A, and at most one menu is open after any click.
C18_MenuClicks ==
  /\ menuLast.kind = "trigger" =>
        /\ menuOpen[menuLast.menu] = ~menuLast.before[menuLast.menu]
        /\ \A m \in Menus \ {menuLast.menu} : ~menuOpen[m]
  /\ menuLast.kind = "outside" => MenusOpen = {}
  /\ menuLast.kind # "none" => Cardinality(MenusOpen) <= 1
\* menu 1 has just been opened by its trigger while menu 2 was open
C18_Witness ==
  /\ menuLast.kind = "trigger"
  /\ menuLast.menu = 1
  /\ menuLast.before[2]
  /\ MenusOpen = {1}

----------------------------------------------------------------------------
(* Avisos with the server: properties                                      *)

\* C19: with the displayed count equal to the server count before any
\* click and every request successful, the displayed count equals the
\* server count whenever no request is in flight.
C19_Converges ==
  reqs = <<>> => ParseIntOr0(badge) = srvCount

====
